---- MODULE Spec2Model ----
(***************************************************************************)
(* A model of the sprint-dir directory walker (src/src/walker.rs) and of   *)
(* the kernel interface it drives (open, openat, getdents64, stat).        *)
(*                                                                         *)
(* The file system is a small tree below the root path; the walker is the  *)
(* IntoIter state machine: a stack of work items, a budget and counters.   *)
(* One advancement of the iterator is a sequence of steps: the recursive   *)
(* calls of IntoIter::next are the steps with pc = "next", and the step    *)
(* that returns to the caller sets pc = "idle".                            *)
(***************************************************************************)
EXTENDS Integers, Sequences, FiniteSets, TLC

\* ------------------------------------------------------------------ bounds

\* Deepest entry below the root (the root is at depth 0).
MaxDepth == 2
\* Most entries below the root.
MaxNodes == 3
\* Largest max_open a configuration asks for.
MaxOpenCfg == 2
\* Most symbolic links the kernel follows while it resolves one path (it
\* fails with ELOOP beyond; Linux follows 40).
MaxSymlinks == 1

\* Most records a kernel writes in one getdents64 call on a DirentBuf used
\* on its own.
MaxChunks == 2

\* ------------------------------------------------------- program constants

\* DirentBuf::with_size(1 << 14)
BufSize == 16384
\* mem::size_of::<dirent64>(): 8 + 8 + 2 + 1, packed
HeaderSize == 19
\* usize::MAX, held in 32 bits
UsizeMax == 2147483647

None == "None"

\* ------------------------------------------------------------ file system

Names == {"a", "b"}
DotNames == {".", ".."}
RootPath == <<"t">>
\* A directory outside the walked tree, holding no entries: the target of
\* the symbolic links that point to a directory.
Elsewhere == <<"elsewhere">>
\* A regular file outside the walked tree: the target of the symbolic links
\* that point to a file.
ElseFile == <<"elsefile">>

\* Relative paths of the entries that may exist below the root.
RelPaths == UNION {[1..k -> Names] : k \in 1..MaxDepth}

Parent(p) == SubSeq(p, 1, Len(p) - 1)

\* The kinds of an entry that is not a directory, and where it points when
\* it is a symbolic link: to an empty directory outside the tree, to a file
\* outside the tree or back to the root of the walk.
LeafKinds ==
    [kind : {"File", "BlockDevice", "CharDevice", "NamedPipe", "UnixSocket"},
     target : {None}]
    \cup [kind : {"SymbolicLink"}, target : {"dir", "file", "root"}]

\* How a file system lists a directory: the order of the records, and the
\* most records one getdents64 call writes.
ListModes ==
    {[order |-> <<".", "..", "a", "b">>, batch |-> 3],
     [order |-> <<"b", ".", "a", "..">>, batch |-> 1]}

\* The sets of entries below the root: at most MaxNodes, each with its
\* parent.
NodeSets ==
    {S \in SUBSET RelPaths :
        /\ Cardinality(S) <= MaxNodes
        /\ \A p \in S : Len(p) > 1 => Parent(p) \in S}

\* The trees over a set of entries: every entry with a child is a directory.
ShapesOver(S) ==
    {[dirs |-> D, leaves |-> S \ D] :
        D \in {E \in SUBSET S : \A p \in S : Len(p) > 1 => Parent(p) \in E}}

Below(rel) == {RootPath \o p : p \in rel}

\* The trees, dirs and leaves being sets of full paths: a directory root
\* with entries below it, a root that is no directory, and a root path that
\* does not exist.
Trees ==
    UNION {{[dirs |-> Below(sh.dirs) \cup {RootPath}, leaves |-> Below(sh.leaves)] :
                sh \in ShapesOver(S)} : S \in NodeSets}
    \cup {[dirs |-> {}, leaves |-> {RootPath}], [dirs |-> {}, leaves |-> {}]}

\* The file systems: a tree, the kind of its leaves, whether it reports
\* d_type, how it lists, the directories that open and openat refuse
\* (EACCES) and those whose getdents64 fails (EIO): none of either here.
FileSystems ==
    UNION {{[dirs |-> t.dirs, leaves |-> t.leaves, leaf |-> lk, denied |-> {},
             broken |-> {},
             d_type_known |-> k, order |-> m.order, batch |-> m.batch] :
                lk \in IF t.leaves = {} THEN {l \in LeafKinds : l.kind = "File"}
                       ELSE LeafKinds,
                k \in BOOLEAN, m \in ListModes} : t \in Trees}

\* The file systems with one directory that may not be opened: a directory
\* root with regular files or symbolic links to a directory below it.
DeniedFileSystems ==
    UNION {{[f EXCEPT !.denied = {d}] : d \in f.dirs} :
             f \in {g \in FileSystems :
                        /\ RootPath \in g.dirs
                        /\ g.leaf \in {[kind |-> "File", target |-> None],
                                       [kind |-> "SymbolicLink", target |-> "dir"]}}}

\* The file systems with at most one directory that can be opened but not
\* listed: a directory root with regular files below it.
BrokenFileSystems ==
    UNION {{f} \cup {[f EXCEPT !.broken = {d}] : d \in f.dirs} :
             f \in {g \in FileSystems :
                        /\ RootPath \in g.dirs
                        /\ g.leaf = [kind |-> "File", target |-> None]}}

\* The file systems of directories and regular files under more ways of
\* listing: the names before, between and after the dot entries, and one,
\* two or all records of a directory in one getdents64 call.
OrderedFileSystems ==
    {[f EXCEPT !.order = o, !.batch = b] :
        f \in {g \in FileSystems : g.leaf.kind = "File" /\ g.batch = 1},
        o \in {<<".", "..", "a", "b">>, <<"b", ".", "a", "..">>,
               <<"b", "a", "..", ".">>},
        b \in {1, 2, 4}}

VARIABLES
    fs,          \* the file system: the tree, its leaf kind, how it lists
    fdtable,     \* kernel: descriptor i + 2 is fdtable[i]: [dir, off, open]
    config,      \* WalkDir.config / IntoIter.config
    path,        \* WalkDir.path
    stack,       \* IntoIter.stack
    open_budget, \* IntoIter.open_budget
    stats,       \* IntoIter.stats
    pc,          \* "config", "idle", "next", "panic", "dropped"
    last_result, \* what the last advancement returned: "Ok", "Err", "None"
    yielded,     \* the entries returned as Ok, in order, with their source
    skipped,     \* per descriptor: records dropped as `.` or `..`
    nr_err,      \* advancements that returned Err
    first_run,   \* the paths an earlier, exhausted walk of the tree yielded
    strong_count, \* Arc<Node>: the strong count of every node alive
    released,    \* the indices of the yielded entries the caller dropped
    dirent_buf,  \* a DirentBuf used on its own: [size, start, last, unread]
    buf_event    \* what the last call on dirent_buf was given and returned

vars == <<fs, fdtable, config, path, stack, open_budget, stats, pc,
          last_result, yielded, skipped, nr_err, first_run, strong_count,
          released, dirent_buf, buf_event>>

\* ----------------------------------------------------------------- kernel

Last(s) == s[Len(s)]

\* F(x), with x evaluated once.
With(x, F(_)) == CHOOSE r \in {F(v) : v \in {x}} : TRUE

IsDirNode(c) == c \in fs.dirs \/ c = Elsewhere

\* The node an existing entry c stands for once a symbolic link in the last
\* component is followed; links is 1 when c is a symbolic link. The name
\* `.` in a directory stands for the directory and `..` for its parent
\* (for itself at the top).
Follow(c) ==
    IF Last(c) = "." THEN [ok |-> TRUE, node |-> Parent(c), links |-> 0]
    ELSE IF Last(c) = ".."
    THEN [ok |-> TRUE, links |-> 0,
          node |-> IF Len(c) > 2 THEN Parent(Parent(c)) ELSE Parent(c)]
    ELSE IF c \in fs.dirs THEN [ok |-> TRUE, node |-> c, links |-> 0]
    ELSE IF c \notin fs.leaves THEN [ok |-> FALSE, errno |-> "ENOENT"]
    ELSE IF fs.leaf.kind # "SymbolicLink" THEN [ok |-> TRUE, node |-> c, links |-> 0]
    ELSE IF fs.leaf.target = "dir" THEN [ok |-> TRUE, node |-> Elsewhere, links |-> 1]
    ELSE IF fs.leaf.target = "file" THEN [ok |-> TRUE, node |-> ElseFile, links |-> 1]
    ELSE IF c = RootPath THEN [ok |-> FALSE, errno |-> "ELOOP"]
    ELSE [ok |-> TRUE, node |-> RootPath, links |-> 1]

\* Path resolution as open and stat do it: symbolic links are followed in
\* every component, the last one included, and the resolution fails once
\* it has followed more than MaxSymlinks of them.
RECURSIVE ResolvePrefix(_, _)
ResolvePrefix(p, k) ==
    IF k = 1 THEN Follow(<<p[1]>>)
    ELSE With(ResolvePrefix(p, k - 1), LAMBDA d :
            IF ~d.ok THEN d
            ELSE IF ~IsDirNode(d.node) THEN [ok |-> FALSE, errno |-> "ENOTDIR"]
            ELSE With(Follow(Append(d.node, p[k])), LAMBDA f :
                    IF ~f.ok THEN f
                    ELSE IF d.links + f.links > MaxSymlinks
                    THEN [ok |-> FALSE, errno |-> "ELOOP"]
                    ELSE [f EXCEPT !.links = @ + d.links]))

Resolve(path_) ==
    With(path_, LAMBDA p :
        IF Len(p) = 0 THEN [ok |-> FALSE, errno |-> "ENOENT"]
        ELSE ResolvePrefix(p, Len(p)))

\* The kind of a resolved node, which is never a symbolic link.
NodeKind(c) ==
    IF IsDirNode(c) THEN "Directory"
    ELSE IF c = ElseFile THEN "File"
    ELSE fs.leaf.kind

\* std::fs::metadata(path): stat, following symbolic links.
sys_stat(p) ==
    With(Resolve(p), LAMBDA r :
        IF r.ok THEN [ok |-> TRUE, kind |-> NodeKind(r.node)] ELSE r)

\* open(path, O_RDONLY | O_DIRECTORY)
sys_open(p) ==
    With(Resolve(p), LAMBDA r :
        IF ~r.ok THEN r
        ELSE IF ~IsDirNode(r.node) THEN [ok |-> FALSE, errno |-> "ENOTDIR"]
        ELSE IF r.node \in fs.denied THEN [ok |-> FALSE, errno |-> "EACCES"]
        ELSE [ok |-> TRUE, dir |-> r.node])

\* openat(fd, name, O_RDONLY | O_DIRECTORY)
sys_openat(fd, name) ==
    With(Follow(Append(fdtable[fd - 2].dir, name)), LAMBDA r :
        IF ~r.ok THEN r
        ELSE IF ~IsDirNode(r.node) THEN [ok |-> FALSE, errno |-> "ENOTDIR"]
        ELSE IF r.node \in fs.denied THEN [ok |-> FALSE, errno |-> "EACCES"]
        ELSE [ok |-> TRUE, dir |-> r.node])

\* The descriptor a successful open returns, and the table afterwards.
NewFd == Len(fdtable) + 3
Opened(dir) == Append(fdtable, [dir |-> dir, off |-> 0, open |-> TRUE])

Exists(c) == c \in fs.dirs \cup fs.leaves

\* The names a directory emits, in the order of the file system.
Listing(dir) ==
    SelectSeq(fs.order, LAMBDA n : n \in DotNames \/ Exists(Append(dir, n)))

DTypeOfKind(k) ==
    CASE k = "BlockDevice" -> "DT_BLK"
      [] k = "CharDevice" -> "DT_CHR"
      [] k = "Directory" -> "DT_DIR"
      [] k = "NamedPipe" -> "DT_FIFO"
      [] k = "SymbolicLink" -> "DT_LNK"
      [] k = "File" -> "DT_REG"
      [] k = "UnixSocket" -> "DT_SOCK"

\* The length of the record for a name: header, name, NUL, padded to 8.
RecLen(n) == ((HeaderSize + Len(n) + 1 + 7) \div 8) * 8

\* One record of the kernel for the entry n of dir.
Dirent(dir, n) ==
    [d_reclen |-> RecLen(n),
     d_type |-> IF ~fs.d_type_known THEN "DT_UNKNOWN"
                ELSE IF n \in DotNames \/ Append(dir, n) \in fs.dirs THEN "DT_DIR"
                ELSE DTypeOfKind(fs.leaf.kind),
     d_name |-> n]

RECURSIVE BytesOf(_, _)
BytesOf(recs, j) == IF j = 0 THEN 0 ELSE recs[j].d_reclen + BytesOf(recs, j - 1)

\* The bytes the records take.
Bytes(recs) == BytesOf(recs, Len(recs))

\* getdents64 on the open directory f, [dir, off, open], with space bytes
\* to write to: the results the kernel may give. It writes the records
\* left that fit, up to the batch of the file system.
getdents64(f, space) ==
        IF f.dir \in fs.broken THEN {[ret |-> -1, errno |-> "EIO", recs |-> <<>>]}
        ELSE
        With(Listing(f.dir), LAMBDA all :
        With([i \in 1..(Len(all) - f.off) |-> Dirent(f.dir, all[f.off + i])], LAMBDA rest :
            IF rest = <<>> THEN {[ret |-> 0, recs |-> <<>>]}
            ELSE IF rest[1].d_reclen > space
            THEN {[ret |-> -1, errno |-> "EINVAL", recs |-> <<>>]}
            ELSE With({j \in 1..Len(rest) :
                          j <= fs.batch /\ BytesOf(rest, j) <= space}, LAMBDA fit :
                 With(CHOOSE j \in fit : \A i \in fit : i <= j, LAMBDA k :
                     {[ret |-> BytesOf(rest, k), recs |-> SubSeq(rest, 1, k)]}))))

\* sys_getdents64: the system call on the descriptor fd.
sys_getdents64(fd, space) == getdents64(fdtable[fd - 2], space)

\* --------------------------------------------------------------- getdent.rs

\* No d_type is recognised.
UnixFileType_new_unknown(kind) == None

\* UnixFileType::new
UnixFileType_new(kind) ==
    CASE kind = "DT_BLK" -> "BlockDevice"
      [] kind = "DT_CHR" -> "CharDevice"
      [] kind = "DT_DIR" -> "Directory"
      [] kind = "DT_FIFO" -> "NamedPipe"
      [] kind = "DT_LNK" -> "SymbolicLink"
      [] kind = "DT_REG" -> "File"
      [] kind = "DT_SOCK" -> "UnixSocket"
      [] OTHER -> None

\* DirentBuf: recs are the records held in the bytes [start, last).
DirentBuf_with_size(length) ==
    [size |-> length, start |-> 0, last |-> 0, recs |-> <<>>]

\* Dirent64::from_start on the unread bytes of buf: "Ok" or the DirentErr.
Dirent64_from_start(buf) ==
    LET remaining == buf.last - buf.start
        rec == buf.recs[1]
    IN  IF remaining < HeaderSize THEN "TooShort"
        ELSE IF rec.d_reclen > remaining THEN "InvalidLength"
        ELSE IF rec.d_reclen < HeaderSize THEN "InvalidLength"
        ELSE IF HeaderSize + Len(rec.d_name) + 1 > rec.d_reclen THEN "InvalidLength"
        ELSE "Ok"

\* The record taken is the last one of the buffer.
Drain_next_from_back(buf) ==
    IF buf.start = buf.last THEN [buf |-> buf, item |-> [tag |-> "None"]]
    ELSE [buf |-> [buf EXCEPT !.start = @ + Last(buf.recs).d_reclen,
                              !.recs = SubSeq(@, 1, Len(@) - 1)],
          item |-> [tag |-> "Some", rec |-> Last(buf.recs)]]

\* Drain::next: [buf, item], item [tag |-> "None"], [tag |-> "Err", err] or
\* [tag |-> "Some", rec].
Drain_next(buf) ==
    IF buf.start = buf.last THEN [buf |-> buf, item |-> [tag |-> "None"]]
    ELSE LET res == Dirent64_from_start(buf)
         IN  IF res = "Ok"
             THEN [buf |-> [buf EXCEPT !.start = @ + buf.recs[1].d_reclen,
                                       !.recs = Tail(@)],
                   item |-> [tag |-> "Some", rec |-> buf.recs[1]]]
             ELSE [buf |-> [buf EXCEPT !.start = buf.last, !.recs = <<>>],
                   item |-> [tag |-> "Err", err |-> res]]

\* DirentBuf::fill_buf given what the system call answers: the outcomes
\* [buf, more, n], n the records written.
fill_buf_with(buf, answers) ==
    LET b == IF buf.start = buf.last THEN [buf EXCEPT !.start = 0, !.last = 0] ELSE buf
    IN  {IF r.ret = 0 THEN [buf |-> b, more |-> "Done", n |-> 0]
         ELSE IF r.ret = -1
         THEN [buf |-> b, more |-> IF r.errno = "EINVAL" THEN "Blocked" ELSE "Err", n |-> 0]
         ELSE [buf |-> [b EXCEPT !.last = @ + r.ret, !.recs = @ \o r.recs],
               more |-> "More", n |-> Len(r.recs)] :
            r \in answers}

\* The bytes fill_buf offers to the kernel.
fill_space(buf) == IF buf.start = buf.last THEN buf.size ELSE buf.size - buf.last

\* DirentBuf::fill_buf on the descriptor fd.
DirentBuf_fill_buf(buf, fd) == fill_buf_with(buf, sys_getdents64(fd, fill_space(buf)))

\* ------------------------------------------- getdent.rs, byte by byte

\* The buffer of a DirentBuf used without the walker is held byte by byte:
\* unread are the bytes inner[start..last].
Zeros(n) == [i \in 1..n |-> 0]

\* The bytes of one record: d_ino and d_off, d_reclen in two bytes, d_type
\* (DT_REG), a name of name_len bytes and NUL bytes up to size bytes.
RawRecord(reclen, name_len, size) ==
    Zeros(16) \o <<reclen % 256, reclen \div 256, 8>>
        \o [i \in 1..name_len |-> 97] \o Zeros(size - HeaderSize - name_len)

\* What a kernel, or whatever answers for it, may write for one record:
\* two well-formed records, one whose name has no NUL, one whose d_reclen
\* is below the header, one whose d_reclen exceeds what was written, and
\* five bytes that are no record.
RawChunks ==
    {RawRecord(24, 1, 24), RawRecord(32, 9, 32), RawRecord(24, 5, 24),
     RawRecord(8, 1, 24), RawRecord(40, 1, 24), <<1, 1, 1, 1, 1>>}

RECURSIVE RawWrites(_)
RawWrites(k) ==
    IF k = 0 THEN {<<>>}
    ELSE RawWrites(k - 1) \cup {w \o c : w \in RawWrites(k - 1), c \in RawChunks}

\* getdents64 on space bytes: the end of the directory, a failure, or the
\* bytes written, never more than space.
RawAnswers(space) ==
    {[ret |-> 0, errno |-> None, bytes |-> <<>>],
     [ret |-> -1, errno |-> "EINVAL", bytes |-> <<>>],
     [ret |-> -1, errno |-> "EIO", bytes |-> <<>>]}
    \cup {[ret |-> Len(w), errno |-> None, bytes |-> w] :
            w \in {v \in RawWrites(MaxChunks) : Len(v) > 0 /\ Len(v) <= space}}

\* DirentBuf::with_size
with_size(length) == [size |-> length, start |-> 0, last |-> 0, unread |-> <<>>]

\* EINVAL is taken for a failure like any other errno.
fill_buf_no_blocked(buf) ==
    LET b == IF buf.start = buf.last THEN [buf EXCEPT !.start = 0, !.last = 0] ELSE buf
    IN  {[buf |-> IF r.ret > 0
                  THEN [b EXCEPT !.last = @ + r.ret, !.unread = @ \o r.bytes]
                  ELSE b,
          more |-> IF r.ret = 0 THEN "Done" ELSE IF r.ret = -1 THEN "Err" ELSE "More",
          ret |-> r.ret, errno |-> r.errno, space |-> b.size - b.last] :
            r \in RawAnswers(b.size - b.last)}

\* The cursors are left where they are when the buffer is drained.
fill_buf_no_reset(buf) ==
    {[buf |-> IF r.ret > 0
              THEN [buf EXCEPT !.last = @ + r.ret, !.unread = @ \o r.bytes]
              ELSE buf,
      more |-> IF r.ret = 0 THEN "Done"
               ELSE IF r.ret = -1
               THEN (IF r.errno = "EINVAL" THEN "Blocked" ELSE "Err")
               ELSE "More",
      ret |-> r.ret, errno |-> r.errno, space |-> buf.size - buf.last] :
        r \in RawAnswers(buf.size - buf.last)}

\* DirentBuf::fill_buf: the outcomes [buf, more, ret, errno, space], space
\* the bytes offered to the kernel.
fill_buf(buf) ==
    LET b == IF buf.start = buf.last THEN [buf EXCEPT !.start = 0, !.last = 0] ELSE buf
        space == b.size - b.last
    IN  {[buf |-> IF r.ret > 0
                  THEN [b EXCEPT !.last = @ + r.ret, !.unread = @ \o r.bytes]
                  ELSE b,
          more |-> IF r.ret = 0 THEN "Done"
                   ELSE IF r.ret = -1
                   THEN (IF r.errno = "EINVAL" THEN "Blocked" ELSE "Err")
                   ELSE "More",
          ret |-> r.ret, errno |-> r.errno, space |-> space] :
            r \in RawAnswers(space)}

\* The name is not searched for its NUL.
from_start_no_nul_check(remaining) ==
    IF Len(remaining) < HeaderSize THEN [tag |-> "Err", err |-> "TooShort"]
    ELSE LET d_reclen == remaining[17] + 256 * remaining[18]
         IN  IF d_reclen > Len(remaining) THEN [tag |-> "Err", err |-> "InvalidLength"]
             ELSE IF d_reclen < HeaderSize THEN [tag |-> "Err", err |-> "InvalidLength"]
             ELSE [tag |-> "Ok", reclen |-> d_reclen, clen |-> d_reclen - HeaderSize]

\* Dirent64::from_start on the bytes remaining: [tag |-> "Ok", reclen, clen]
\* or [tag |-> "Err", err].
from_start(remaining) ==
    IF Len(remaining) < HeaderSize THEN [tag |-> "Err", err |-> "TooShort"]
    ELSE LET d_reclen == remaining[17] + 256 * remaining[18]
             nuls == {i \in (HeaderSize + 1)..d_reclen : remaining[i] = 0}
         IN  IF d_reclen > Len(remaining) THEN [tag |-> "Err", err |-> "InvalidLength"]
             ELSE IF d_reclen < HeaderSize THEN [tag |-> "Err", err |-> "InvalidLength"]
             ELSE IF nuls = {} THEN [tag |-> "Err", err |-> "InvalidLength"]
             ELSE [tag |-> "Ok", reclen |-> d_reclen,
                   clen |-> (CHOOSE i \in nuls : \A j \in nuls : i <= j) - HeaderSize - 1]

\* Entries::next: [remaining, item], item [tag |-> "None"] or the result of
\* from_start.
Entries_next(remaining) ==
    IF remaining = <<>> THEN [remaining |-> remaining, item |-> [tag |-> "None"]]
    ELSE With(from_start(remaining), LAMBDA r :
            [remaining |-> IF r.tag = "Ok"
                           THEN SubSeq(remaining, r.reclen + 1, Len(remaining))
                           ELSE <<>>,
             item |-> r])

\* DirentBuf::drain().next(), Drain::next: [buf, item].
drain_next(buf) ==
    With(Entries_next(buf.unread), LAMBDA e :
        [buf |-> IF e.item.tag = "Ok"
                 THEN [buf EXCEPT !.start = @ + e.item.reclen, !.unread = e.remaining]
                 ELSE IF e.item.tag = "Err"
                 THEN [buf EXCEPT !.start = buf.last, !.unread = e.remaining]
                 ELSE buf,
         item |-> e.item])

\* ---------------------------------------------------------------- walker.rs

\* Configuration::default
Configuration_default ==
    [min_depth |-> 0, max_depth |-> UsizeMax, max_open |-> 10,
     follow_links |-> FALSE, contents_first |-> FALSE, same_file_system |-> FALSE]

\* The configurations the builder produces: the default, or the default
\* with one of the builder's methods called (WalkDir::max_open, min_depth,
\* max_depth, contents_first, follow_links, same_file_system).
Configurations ==
    {Configuration_default}
    \cup {[Configuration_default EXCEPT !.max_open = n] : n \in 0..MaxOpenCfg}
    \cup {[Configuration_default EXCEPT !.min_depth = 1],
          [Configuration_default EXCEPT !.max_depth = 1],
          [Configuration_default EXCEPT !.contents_first = TRUE],
          [Configuration_default EXCEPT !.follow_links = TRUE],
          [Configuration_default EXCEPT !.same_file_system = TRUE]}

\* Configuration::assert_consistent: TRUE when no assertion fails.
assert_consistent(cfg) ==
    /\ cfg.min_depth <= cfg.max_depth
    /\ cfg.max_open > 0
    /\ ~cfg.follow_links
    /\ ~cfg.same_file_system

Stats_default ==
    [nr_close |-> 0, nr_getdent |-> 0, nr_open |-> 0, nr_openat |-> 0, nr_stat |-> 0]

\* A budget taken from the configuration, one too small.
InitialBudget_below_max_open == config.max_open - 1

\* IntoIter.open_budget as WalkDir::build sets it.
InitialBudget == 128

\* The root placed one level too deep.
initial_closed_depth_one(p) ==
    [tag |-> "Closed", depth |-> 1,
     children |-> <<[file_path |-> p, file_type |-> None]>>,
     as_parent |-> None]

\* WalkDir::initial_closed
initial_closed(p) ==
    [tag |-> "Closed", depth |-> 0,
     children |-> <<[file_path |-> p, file_type |-> None]>>,
     as_parent |-> None]

\* EntryPath::make_path, Node::make_path: entry paths are
\* [tag |-> "Full", buf] or [tag |-> "Name", name, parent], parent a Node
\* [depth, path].
RECURSIVE make_path(_)

\* The name joined on the wrong side of the path of the parent.
make_path_name_first(ep) ==
    IF ep.tag = "Full" THEN ep.buf
    ELSE <<ep.name>> \o make_path(ep.parent.path)

make_path(ep) ==
    IF ep.tag = "Full" THEN ep.buf
    ELSE Append(make_path(ep.parent.path), ep.name)

\* DirEntry::file_name
file_name(entry) ==
    IF entry.file_name.tag = "Full" THEN Last(entry.file_name.buf)
    ELSE entry.file_name.name

\* DirEntry::path: the cell full_path, which the first call fills.
DirEntry_path(entry) ==
    IF entry.full_path # None THEN entry.full_path ELSE make_path(entry.file_name)

\* The entry once DirEntry::path was called on it.
DirEntry_after_path(entry) == [entry EXCEPT !.full_path = DirEntry_path(entry)]

\* DirEntry::into_path
DirEntry_into_path(entry) ==
    IF entry.full_path # None THEN entry.full_path ELSE make_path(entry.file_name)

\* Every record is kept.
sub_entry_keeps_all(rec) == TRUE

\* Open::sub_entry: TRUE when the record is kept.
sub_entry(rec) == rec.d_name \notin DotNames

\* Open::ready_entry with Open::pop and Open::okay:
\* [open, entry, skipped, panic], entry [tag |-> "None"] or
\* [tag |-> "Some", e |-> DirEntry].
RECURSIVE Open_ready_entry(_)
Open_ready_entry(open) ==
    With(Drain_next(open.buffer), LAMBDA d :
    With([open EXCEPT !.buffer = d.buf], LAMBDA o :
        IF d.item.tag = "None"
        THEN [open |-> o, entry |-> [tag |-> "None"], skipped |-> 0, panic |-> FALSE]
        ELSE IF d.item.tag = "Err"
        THEN [open |-> o, entry |-> [tag |-> "None"], skipped |-> 0, panic |-> TRUE]
        ELSE IF ~sub_entry(d.item.rec)
        THEN [Open_ready_entry(o) EXCEPT !.skipped = @ + 1]
        ELSE [open |-> o,
              entry |-> [tag |-> "Some",
                         e |-> [file_name |-> [tag |-> "Name", name |-> d.item.rec.d_name,
                                               parent |-> open.as_parent],
                                depth |-> open.depth,
                                file_type |-> UnixFileType_new(d.item.rec.d_type),
                                full_path |-> None]],
              skipped |-> 0, panic |-> FALSE]))

\* The last child is read but left in the backlog.
Closed_ready_entry_peek(closed) ==
    IF closed.children = <<>>
    THEN [closed |-> closed, entry |-> [tag |-> "None"]]
    ELSE [closed |-> closed,
          entry |-> [tag |-> "Some",
                     e |-> [file_name |-> [tag |-> "Full",
                                           buf |-> Last(closed.children).file_path],
                            file_type |-> Last(closed.children).file_type,
                            depth |-> closed.depth,
                            full_path |-> None]]]

\* Closed::ready_entry: [closed, entry].
Closed_ready_entry(closed) ==
    IF closed.children = <<>>
    THEN [closed |-> closed, entry |-> [tag |-> "None"]]
    ELSE LET backlog == Last(closed.children)
         IN  [closed |-> [closed EXCEPT !.children = SubSeq(@, 1, Len(@) - 1)],
              entry |-> [tag |-> "Some",
                         e |-> [file_name |-> [tag |-> "Full", buf |-> backlog.file_path],
                                file_type |-> backlog.file_type,
                                depth |-> closed.depth,
                                full_path |-> None]]]

\* The node of the new item does not refer to the node of its parent.
Open_openat_detached(open, name, fd) ==
    [tag |-> "Open", fd |-> fd, buffer |-> DirentBuf_with_size(BufSize),
     depth |-> open.depth + 1,
     as_parent |-> [path |-> [tag |-> "Full", buf |-> <<name>>],
                    depth |-> open.depth + 1]]

\* Open::openat_os, Open::openat after a successful openat: the new item.
Open_openat(open, name, fd) ==
    [tag |-> "Open", fd |-> fd, buffer |-> DirentBuf_with_size(BufSize),
     depth |-> open.depth + 1,
     as_parent |-> [path |-> [tag |-> "Name", name |-> name, parent |-> open.as_parent],
                    depth |-> open.depth + 1]]

\* Closed::open after a successful open: the new item.
Closed_open(closed, p, fd) ==
    [tag |-> "Open", fd |-> fd, buffer |-> DirentBuf_with_size(BufSize),
     depth |-> closed.depth + 1,
     as_parent |-> [depth |-> closed.depth + 1, path |-> [tag |-> "Full", buf |-> p]]]

\* Open::backlog: the record kept with its full path.
Backlog(base, rec) ==
    [file_path |-> Append(base, rec.d_name), file_type |-> UnixFileType_new(rec.d_type)]

\* Closed::from_backlog
Closed_from_backlog(open, children) ==
    [tag |-> "Closed", depth |-> open.depth + 1, children |-> children,
     as_parent |-> None]

\* The drain of Open::close: every record of the buffer through Open::okay,
\* Open::sub_entry and Open::backlog: [buf, backlog, panic].
RECURSIVE drain_backlog(_, _, _)
drain_backlog(buf, base, backlog) ==
    With(Drain_next(buf), LAMBDA d :
        IF d.item.tag = "None" THEN [buf |-> d.buf, backlog |-> backlog, panic |-> FALSE]
        ELSE IF d.item.tag = "Err" THEN [buf |-> d.buf, backlog |-> backlog, panic |-> TRUE]
        ELSE drain_backlog(d.buf, base,
                           IF sub_entry(d.item.rec)
                           THEN Append(backlog, Backlog(base, d.item.rec))
                           ELSE backlog))

\* Open::close on the item open whose descriptor is the open directory f:
\* the outcomes [res, closed, stats, f], res "None", "Some" with the item
\* closed, "Err" or "panic".
RECURSIVE Open_close_loop(_, _, _, _)
Open_close_loop(open, f, st, backlog) ==
    With(drain_backlog(open.buffer, make_path(open.as_parent.path), backlog), LAMBDA d :
    With([st EXCEPT !.nr_getdent = @ + 1], LAMBDA st1 :
        IF d.panic THEN {[res |-> "panic", closed |-> None, stats |-> st, f |-> f]}
        ELSE UNION {
            IF o.more = "More"
            THEN Open_close_loop([open EXCEPT !.buffer = o.buf],
                                 [f EXCEPT !.off = @ + o.n], st1, d.backlog)
            ELSE IF o.more = "Blocked"
            THEN {[res |-> "panic", closed |-> None, stats |-> st1, f |-> f]}
            ELSE IF o.more = "Err"
            THEN {[res |-> "Err", closed |-> None, stats |-> st1, f |-> f]}
            ELSE IF d.backlog = <<>>
            THEN {[res |-> "None", closed |-> None,
                   stats |-> [st1 EXCEPT !.nr_close = @ + 1],
                   f |-> [f EXCEPT !.open = FALSE]]}
            ELSE {[res |-> "Some", closed |-> Closed_from_backlog(open, d.backlog),
                   stats |-> [st1 EXCEPT !.nr_close = @ + 1],
                   f |-> [f EXCEPT !.open = FALSE]]} :
              o \in fill_buf_with(d.buf, getdents64(f, fill_space(d.buf)))}))

Open_close(open, f, st) == Open_close_loop(open, f, st, <<>>)

\* The file type iter_entry sets from the metadata of an entry of unknown
\* type; None when no branch sets it.
meta_file_type(kind) ==
    CASE kind = "Directory" -> "Directory"
      [] kind = "File" -> "File"
      [] kind = "SymbolicLink" -> "SymbolicLink"
      [] kind = "BlockDevice" -> "BlockDevice"
      [] kind = "CharDevice" -> "CharDevice"
      [] kind = "NamedPipe" -> "File"
      [] kind = "UnixSocket" -> "UnixSocket"
      [] OTHER -> None

\* The test of the budget inverted.
can_open_inverted(budget) == budget <= 0

\* let can_open = self.open_budget > 0
can_open(budget) == budget > 0

\* The new item takes the place of the item that found it, which is lost.
push_next_over_top(stk, next, contents_first) == [stk EXCEPT ![Len(stk)] = next]

\* The new item is pushed on top whatever the configuration.
push_next_on_top(stk, next, contents_first) == Append(stk, next)

\* The stack after iter_entry places the new item: below the item that
\* found it unless contents_first is set.
push_next(stk, next, contents_first) ==
    IF ~contents_first
    THEN SubSeq(stk, 1, Len(stk) - 1) \o <<next, Last(stk)>>
    ELSE Append(stk, next)

\* IntoIter::iter_entry on the stack stk and the counters st:
\* [res, entry, stack, stats, fdtable, opened], res "Ok", "Err" or "Panic",
\* opened the item of the directory descended into or [tag |-> "None"].
iter_entry(stk, st, entry) ==
    LET unknown == entry.file_type = None
        st1 == IF unknown THEN [st EXCEPT !.nr_stat = @ + 1] ELSE st
        top == Last(stk)
    IN  With(IF unknown THEN sys_stat(make_path(entry.file_name)) ELSE [ok |-> TRUE],
             LAMBDA meta :
        With(IF unknown /\ meta.ok
             THEN [entry EXCEPT !.file_type = meta_file_type(meta.kind)]
             ELSE entry, LAMBDA e1 :
        With([entry |-> e1, stack |-> stk, stats |-> st1, fdtable |-> fdtable,
              opened |-> [tag |-> "None"]],
             LAMBDA same :
            IF unknown /\ ~meta.ok THEN [res |-> "Err"] @@ same
            ELSE IF ~(IF unknown THEN meta.kind = "Directory"
                      ELSE entry.file_type = "Directory")
            THEN [res |-> "Ok"] @@ same
            ELSE IF ~can_open(open_budget) THEN [res |-> "Panic"] @@ same
            ELSE IF top.tag = "Open"
            THEN With(sys_openat(top.fd, file_name(e1)), LAMBDA r :
                    IF ~r.ok
                    THEN [res |-> "Err"]
                         @@ [same EXCEPT !.stats = [st1 EXCEPT !.nr_openat = @ + 1]]
                    ELSE With(Open_openat(top, file_name(e1), NewFd), LAMBDA next :
                         [res |-> "Ok", entry |-> e1, opened |-> next,
                          stack |-> push_next(stk, next, config.contents_first),
                          stats |-> [st1 EXCEPT !.nr_openat = @ + 1],
                          fdtable |-> Opened(r.dir)]))
            ELSE With(make_path(e1.file_name), LAMBDA p :
                 With(sys_open(p), LAMBDA r :
                    IF ~r.ok
                    THEN [res |-> "Err"]
                         @@ [same EXCEPT !.stats = [st1 EXCEPT !.nr_open = @ + 1]]
                    ELSE With(Closed_open(top, p, NewFd), LAMBDA next :
                         [res |-> "Ok", entry |-> e1, opened |-> next,
                          stack |-> push_next(stk, next, config.contents_first),
                          stats |-> [st1 EXCEPT !.nr_open = @ + 1],
                          fdtable |-> Opened(r.dir)]))))))

\* ------------------------------------------------------------- Arc<Node>

\* Arc::clone of a reference to the node n.
Arc_clone(counts, n) == [counts EXCEPT ![n] = @ + 1]

\* Drop of a reference to the node n: the last one frees the node, which
\* drops the reference its path holds to the node of its parent.
RECURSIVE Arc_drop(_, _)
Arc_drop(counts, n) ==
    IF n \notin DOMAIN counts THEN counts
    ELSE IF counts[n] > 1 THEN [counts EXCEPT ![n] = @ - 1]
    ELSE With([m \in DOMAIN counts \ {n} |-> counts[m]], LAMBDA rest :
            IF n.path.tag = "Name" THEN Arc_drop(rest, n.path.parent) ELSE rest)

\* Open::ready_entry: the entry made from a record holds a clone of the
\* node of the item; an entry of a closed item carries a full path.
ready_entry_arcs(counts, entry) ==
    IF entry.file_name.tag = "Name"
    THEN Arc_clone(counts, entry.file_name.parent)
    ELSE counts

\* Open::openat, Closed::open: Arc::new of the node of the new item, whose
\* path holds a clone of the node of its parent when it is a name.
openat_arcs(counts, item) ==
    IF item.tag = "None" THEN counts
    ELSE With(item.as_parent, LAMBDA n :
            (n :> 1) @@ (IF n.path.tag = "Name"
                         THEN Arc_clone(counts, n.path.parent) ELSE counts))

\* The entry goes without its reference being given back.
drop_entry_leaks(counts, entry) == counts

\* A DirEntry is dropped: by next() when iter_entry failed, or by the
\* caller.
drop_entry(counts, entry) ==
    IF entry.file_name.tag = "Name"
    THEN Arc_drop(counts, entry.file_name.parent)
    ELSE counts

\* A WorkItem is dropped: an open one holds its node, a closed one none.
drop_item(counts, item) ==
    IF item.tag = "Open" THEN Arc_drop(counts, item.as_parent) ELSE counts

\* The items 1..k of the stack stk are dropped.
RECURSIVE drop_stack(_, _, _)
drop_stack(counts, stk, k) ==
    IF k = 0 THEN counts ELSE drop_stack(drop_item(counts, stk[k]), stk, k - 1)

\* ------------------------------------------------------------------ actions

Init ==
    /\ fs \in FileSystems
    /\ config \in Configurations
    /\ path = RootPath
    /\ fdtable = <<>>
    /\ stack = <<>>
    /\ open_budget = 0
    /\ stats = Stats_default
    /\ pc = "config"
    /\ last_result = "Start"
    /\ yielded = <<>>
    /\ skipped = <<>>
    /\ nr_err = 0
    /\ first_run = [done |-> FALSE, paths |-> <<>>, max_open |-> 0]
    /\ strong_count = <<>>
    /\ released = {}
    /\ dirent_buf = with_size(0)
    /\ buf_event = [op |-> "none"]

\* WalkDir::build (IntoIterator::into_iter)
Build ==
    /\ pc = "config"
    /\ IF assert_consistent(config)
       THEN /\ stack' = <<initial_closed(path)>>
            /\ open_budget' = InitialBudget
            /\ stats' = Stats_default
            /\ pc' = "idle"
       ELSE /\ pc' = "panic"
            /\ UNCHANGED <<stack, open_budget, stats>>
    /\ UNCHANGED <<first_run, fs, fdtable, config, path, last_result, yielded, skipped, nr_err,
                   strong_count, released, dirent_buf,
                   buf_event>>

InNext == pc \in {"idle", "next"}

\* IntoIter::next on an empty stack: the iterator is exhausted.
NextNone ==
    /\ InNext
    /\ stack = <<>>
    /\ last_result' = "None"
    /\ pc' = "idle"
    /\ UNCHANGED <<first_run, fs, fdtable, config, path, stack, open_budget, stats, yielded,
                   skipped, nr_err, strong_count, released, dirent_buf,
                   buf_event>>

\* IntoIter::next, top item Closed with no children left: pop it, go on.
NextClosedPop ==
    /\ InNext
    /\ stack # <<>>
    /\ Last(stack).tag = "Closed"
    /\ Closed_ready_entry(Last(stack)).entry.tag = "None"
    /\ stack' = SubSeq(stack, 1, Len(stack) - 1)
    /\ pc' = "next"
    /\ UNCHANGED <<first_run, fs, fdtable, config, path, open_budget, stats, last_result,
                   yielded, skipped, nr_err, strong_count, released, dirent_buf,
                   buf_event>>

Replace(stk, item) == [stk EXCEPT ![Len(stk)] = item]

\* One more `.` or `..` record of descriptor fd dropped n times.
Skip(fd, n) ==
    [i \in 1..Len(fdtable) |->
        (IF i <= Len(skipped) THEN skipped[i] ELSE 0) + (IF i = fd - 2 THEN n ELSE 0)]

\* IntoIter::next, top item Open with no entry ready: refill its buffer.
NextRefill ==
    /\ InNext
    /\ stack # <<>>
    /\ Last(stack).tag = "Open"
    /\ \E r \in {Open_ready_entry(Last(stack))} :
        /\ r.entry.tag = "None"
        /\ skipped' = Skip(r.open.fd, r.skipped)
        /\ IF r.panic
           THEN /\ pc' = "panic"
                /\ stack' = Replace(stack, r.open)
                /\ UNCHANGED <<stats, fdtable, strong_count>>
           ELSE /\ stats' = [stats EXCEPT !.nr_getdent = @ + 1]
                /\ \E f \in DirentBuf_fill_buf(r.open.buffer, r.open.fd) :
                     /\ fdtable' = [fdtable EXCEPT ![r.open.fd - 2].off = @ + f.n]
                     /\ IF f.more = "More"
                        THEN /\ stack' = Replace(stack, [r.open EXCEPT !.buffer = f.buf])
                             /\ pc' = "next"
                             /\ strong_count' = strong_count
                        ELSE IF f.more = "Done"
                        THEN /\ stack' = SubSeq(stack, 1, Len(stack) - 1)
                             /\ pc' = "next"
                             /\ strong_count' = drop_item(strong_count, r.open)
                        ELSE /\ stack' = Replace(stack, [r.open EXCEPT !.buffer = f.buf])
                             /\ pc' = "panic"
                             /\ strong_count' = strong_count
    /\ UNCHANGED <<first_run, fs, config, path, open_budget, last_result, yielded, nr_err,
                   released, dirent_buf,
                   buf_event>>

\* The entry is handed out but the item is left as it was, the entry
\* still in it.
Ready_keeps_item(item) ==
    IF item.tag = "Open"
    THEN LET r == Open_ready_entry(item)
         IN  [item |-> item, entry |-> r.entry, skipped |-> r.skipped,
              panic |-> r.panic, src |-> item.fd]
    ELSE LET r == Closed_ready_entry(item)
         IN  [item |-> item, entry |-> r.entry, skipped |-> 0,
              panic |-> FALSE, src |-> 0]

\* The entry the top item has ready: [item, entry, skipped, panic, src].
Ready(item) ==
    IF item.tag = "Open"
    THEN LET r == Open_ready_entry(item)
         IN  [item |-> r.open, entry |-> r.entry, skipped |-> r.skipped,
              panic |-> r.panic, src |-> item.fd]
    ELSE LET r == Closed_ready_entry(item)
         IN  [item |-> r.closed, entry |-> r.entry, skipped |-> 0,
              panic |-> FALSE, src |-> 0]

\* IntoIter::next, top item has an entry ready: iter_entry decides whether
\* to descend, and the entry or the failure is returned.
NextEntry ==
    /\ InNext
    /\ stack # <<>>
    /\ \E r \in {Ready(Last(stack))} :
        /\ r.entry.tag = "Some"
        /\ \E ie \in {iter_entry(Replace(stack, r.item), stats, r.entry.e)} :
            /\ stack' = ie.stack
            /\ stats' = ie.stats
            /\ fdtable' = ie.fdtable
            /\ skipped' = IF r.src = 0 THEN skipped ELSE Skip(r.src, r.skipped)
            /\ strong_count' =
                 With(openat_arcs(ready_entry_arcs(strong_count, r.entry.e), ie.opened),
                      LAMBDA c : IF ie.res = "Err" THEN drop_entry(c, r.entry.e) ELSE c)
            /\ IF ie.res = "Ok"
               THEN /\ yielded' = Append(yielded, [entry |-> ie.entry, src |-> r.src])
                    /\ last_result' = "Ok"
                    /\ pc' = "idle"
                    /\ nr_err' = nr_err
               ELSE IF ie.res = "Err"
               THEN /\ last_result' = "Err"
                    /\ nr_err' = nr_err + 1
                    /\ pc' = "idle"
                    /\ yielded' = yielded
               ELSE /\ pc' = "panic"
                    /\ UNCHANGED <<last_result, yielded, nr_err>>
    /\ UNCHANGED <<first_run, fs, config, path, open_budget, released, dirent_buf,
                   buf_event>>

\* The caller drops the iterator between two advancements: the stack and
\* its items are dropped. DirFd has no destructor, so no descriptor is
\* closed.
Drop ==
    /\ pc = "idle"
    /\ pc' = "dropped"
    /\ stack' = <<>>
    /\ strong_count' = drop_stack(strong_count, stack, Len(stack))
    /\ UNCHANGED <<first_run, fs, fdtable, config, path, open_budget, stats, last_result,
                   yielded, skipped, nr_err, released, dirent_buf,
                   buf_event>>

\* One step of an advancement of the iterator.
Advance == NextNone \/ NextClosedPop \/ NextRefill \/ NextEntry

Next == Build \/ Advance \/ Drop

Spec == Init /\ [][Next]_vars

\* A caller that runs the iterator to its end: it never drops it and goes
\* on calling next().
LiveNext == Build \/ Advance

\* The walks that are run to their end: of the default configuration, of
\* its contents_first variant and of the smallest budget.
InitLive ==
    /\ Init
    /\ config \in {Configuration_default,
                   [Configuration_default EXCEPT !.contents_first = TRUE],
                   [Configuration_default EXCEPT !.max_open = 1]}

LiveSpec == InitLive /\ [][LiveNext]_vars /\ WF_vars(LiveNext)

\* The paths yielded so far, in order.
YieldedPaths == [i \in 1..Len(yielded) |-> make_path(yielded[i].entry.file_name)]

\* The tree is walked a second time: once a walk is exhausted the caller
\* configures a new WalkDir for the same root with another max_open, which
\* build() then turns into a new iterator.
Rerun ==
    /\ pc = "idle" /\ last_result = "None"
    /\ ~first_run.done
    /\ \E n \in 1..MaxOpenCfg :
        /\ n # config.max_open
        /\ config' = [config EXCEPT !.max_open = n]
    /\ first_run' = [done |-> TRUE, paths |-> YieldedPaths, max_open |-> config.max_open]
    /\ pc' = "config"
    /\ last_result' = "Start"
    /\ yielded' = <<>>
    /\ nr_err' = 0
    /\ stack' = <<>>
    /\ strong_count' = <<>>
    /\ released' = {}
    /\ UNCHANGED <<fs, fdtable, path, open_budget, stats, skipped, dirent_buf, buf_event>>

\* Walks that differ in max_open alone.
InitRerun ==
    /\ Init
    /\ config \in {[Configuration_default EXCEPT !.max_open = n] : n \in 1..MaxOpenCfg}

RerunNext == Next \/ Rerun

RerunSpec == InitRerun /\ [][RerunNext]_vars

\* The walker before build(), nothing opened or yielded.
Unstarted ==
    /\ path = RootPath
    /\ fdtable = <<>>
    /\ stack = <<>>
    /\ open_budget = 0
    /\ stats = Stats_default
    /\ pc = "config"
    /\ last_result = "Start"
    /\ yielded = <<>>
    /\ skipped = <<>>
    /\ nr_err = 0
    /\ first_run = [done |-> FALSE, paths |-> <<>>, max_open |-> 0]
    /\ strong_count = <<>>
    /\ released = {}
    /\ dirent_buf = with_size(0)
    /\ buf_event = [op |-> "none"]

\* Walks of a tree one directory of which may not be opened.
InitDenied ==
    /\ fs \in DeniedFileSystems
    /\ config \in {Configuration_default,
                   [Configuration_default EXCEPT !.contents_first = TRUE]}
    /\ Unstarted

DeniedSpec == InitDenied /\ [][Next]_vars

\* Walks of a tree at most one directory of which cannot be listed.
InitBroken ==
    /\ fs \in BrokenFileSystems
    /\ config \in {Configuration_default,
                   [Configuration_default EXCEPT !.contents_first = TRUE]}
    /\ Unstarted

BrokenSpec == InitBroken /\ [][Next]_vars

\* The caller drops a yielded entry it still holds, between two
\* advancements or after it dropped the iterator.
Release ==
    /\ pc \in {"idle", "dropped"}
    /\ \E i \in (1..Len(yielded)) \ released :
        /\ released' = released \cup {i}
        /\ strong_count' = drop_entry(strong_count, yielded[i].entry)
    /\ UNCHANGED <<first_run, fs, fdtable, config, path, stack, open_budget, stats, pc,
                   last_result, yielded, skipped, nr_err, dirent_buf, buf_event>>

HeldNext == Next \/ Release

\* Walks, of trees of directories and regular files, whose caller keeps or
\* drops the entries it was given.
InitHeld ==
    /\ fs \in {f \in FileSystems : f.leaf.kind = "File"}
    /\ config \in {Configuration_default,
                   [Configuration_default EXCEPT !.contents_first = TRUE]}
    /\ Unstarted

HeldSpec == InitHeld /\ [][HeldNext]_vars

\* Walks of trees that list their directories in these further ways.
InitOrdered ==
    /\ fs \in OrderedFileSystems
    /\ config \in {Configuration_default,
                   [Configuration_default EXCEPT !.contents_first = TRUE]}
    /\ Unstarted

OrderedSpec == InitOrdered /\ [][Next]_vars

Remove(stk, i) == SubSeq(stk, 1, i - 1) \o SubSeq(stk, i + 1, Len(stk))

\* Between two advancements an Open item of the stack is closed by force
\* (Open::close): it leaves the stack, and the Closed item returned, if
\* any, takes its place.
ForceClose ==
    /\ pc = "idle"
    /\ \E i \in 1..Len(stack) :
        /\ stack[i].tag = "Open"
        /\ \E o \in Open_close(stack[i], fdtable[stack[i].fd - 2], stats) :
            /\ fdtable' = [fdtable EXCEPT ![stack[i].fd - 2] = o.f]
            /\ stats' = o.stats
            /\ strong_count' = drop_item(strong_count, stack[i])
            /\ stack' = IF o.res = "Some" THEN [stack EXCEPT ![i] = o.closed]
                        ELSE Remove(stack, i)
            /\ pc' = IF o.res = "panic" THEN "panic" ELSE "idle"
            /\ last_result' = IF o.res = "Err" THEN "Err" ELSE last_result
    /\ UNCHANGED <<first_run, fs, config, path, open_budget, yielded, skipped, nr_err,
                   released, dirent_buf, buf_event>>

CloseNext == Next \/ ForceClose

\* Walks, of trees of directories and regular files, some of whose open
\* directories are closed by force.
InitClose ==
    /\ fs \in {f \in FileSystems : f.leaf.kind = "File"}
    /\ config \in {Configuration_default,
                   [Configuration_default EXCEPT !.contents_first = TRUE]}
    /\ Unstarted

CloseSpec == InitClose /\ [][CloseNext]_vars

\* The capacities of the buffers used on their own.
Capacities == {24, 56, 80}

\* DirentBuf::fill_buf on the buffer used on its own.
BufFill ==
    /\ pc = "buffer"
    /\ \E f \in fill_buf(dirent_buf) :
        /\ dirent_buf' = f.buf
        /\ buf_event' = [op |-> "fill", ret |-> f.ret, errno |-> f.errno,
                         more |-> f.more, space |-> f.space,
                         was_start |-> dirent_buf.start, was_last |-> dirent_buf.last]
    /\ UNCHANGED <<first_run, fs, fdtable, config, path, stack, open_budget, stats, pc,
                   last_result, yielded, skipped, nr_err, strong_count, released>>

\* One step of DirentBuf::drain on the buffer used on its own.
BufDrain ==
    /\ pc = "buffer"
    /\ \E d \in {drain_next(dirent_buf)} :
        /\ dirent_buf' = d.buf
        /\ buf_event' = [op |-> "drain", item |-> d.item]
    /\ UNCHANGED <<first_run, fs, fdtable, config, path, stack, open_budget, stats, pc,
                   last_result, yielded, skipped, nr_err, strong_count, released>>

BufNext == BufFill \/ BufDrain

\* A DirentBuf of some capacity, filled and drained in any order; no walk
\* is made.
InitBuf ==
    /\ fs \in {f \in FileSystems :
                 /\ f.dirs = {} /\ f.leaves = {}
                 /\ f.d_type_known /\ f.batch = 1}
    /\ config = Configuration_default
    /\ path = RootPath
    /\ fdtable = <<>>
    /\ stack = <<>>
    /\ open_budget = 0
    /\ stats = Stats_default
    /\ pc = "buffer"
    /\ last_result = "Start"
    /\ yielded = <<>>
    /\ skipped = <<>>
    /\ nr_err = 0
    /\ first_run = [done |-> FALSE, paths |-> <<>>, max_open |-> 0]
    /\ strong_count = <<>>
    /\ released = {}
    /\ dirent_buf \in {with_size(c) : c \in Capacities}
    /\ buf_event = [op |-> "none"]

BufSpec == InitBuf /\ [][BufNext]_vars

\* ------------------------------------------------------------------- claims

\* The iterator has reported exhaustion and is still held by the caller.
Exhausted == pc = "idle" /\ last_result = "None"

\* The Open work items of a stack.
OpenItems(stk) == {i \in 1..Len(stk) : stk[i].tag = "Open"}

\* The path, the recorded kind and the depth of the i-th yielded entry;
\* YieldedPaths[i] is YPath(i).
YPath(i) == DirEntry_path(yielded[i].entry)
YKind(i) == yielded[i].entry.file_type
YDepth(i) == yielded[i].entry.depth

\* The entries yielded from the descriptor fd.
YieldedFrom(fd) == {i \in 1..Len(yielded) : yielded[i].src = fd}

SkippedOf(i) == IF i <= Len(skipped) THEN skipped[i] ELSE 0

\* The longest chain of nested directories of the tree, the root included.
NestingDepth ==
    IF fs.dirs = {} THEN 0
    ELSE CHOOSE n \in 1..(MaxDepth + 1) :
            /\ \E p \in fs.dirs : Len(p) = n
            /\ \A p \in fs.dirs : Len(p) <= n

\* C1: with max_open = n >= 1, the stack never holds more than n Open work
\* items (descriptors opened and not yet closed).
C1_OpenItemsWithinBudget ==
    config.max_open >= 1 => Cardinality(OpenItems(stack)) <= config.max_open

\* C2: once the iterator is exhausted or dropped, every descriptor that open
\* or openat returned has been closed.
C2_NoDescriptorLeak ==
    (Exhausted \/ pc = "dropped") =>
        \A i \in 1..Len(fdtable) : ~fdtable[i].open

\* C3: with no failure, at exhaustion the root was yielded, every directory
\* that was read was read to its end and its yielded entries plus its
\* skipped `.`/`..` records are the records the kernel emitted for it, no
\* path was yielded twice and no entry of the tree was left out.
C3_EveryEntryOnce ==
    (Exhausted /\ nr_err = 0) =>
        /\ Len(yielded) >= 1 /\ YPath(1) = RootPath
        /\ \A i \in 1..Len(fdtable) :
            /\ fdtable[i].off = Len(Listing(fdtable[i].dir))
            /\ Cardinality(YieldedFrom(i + 2)) + SkippedOf(i) = fdtable[i].off
        /\ \A paths \in {YieldedPaths} :
            /\ \A i, j \in 1..Len(paths) : paths[i] = paths[j] => i = j
            /\ \A p \in fs.dirs \cup fs.leaves : \E i \in 1..Len(paths) : paths[i] = p

\* C3 witness: a walk without failure is exhausted after yielding the root,
\* a directory below it and an entry of that directory.
C3_Witness ==
    /\ Exhausted /\ nr_err = 0
    /\ Len(yielded) = MaxNodes + 1
    /\ \E i \in 1..Len(yielded) : YDepth(i) = 2
    /\ \E i \in 1..Len(skipped) : skipped[i] = 2

\* C4: every yielded entry other than the root comes after the entry of its
\* parent directory, and so after the entries of all its ancestors.
C4_ParentsFirst ==
    \A paths \in {YieldedPaths} :
        \A i \in 1..Len(paths) :
            paths[i] # RootPath =>
                \A k \in 1..(Len(paths[i]) - 1) :
                    \E j \in 1..(i - 1) :
                        paths[j] = SubSeq(paths[i], 1, k) /\ YKind(j) = "Directory"

\* C4 witness: an entry two levels below the root has been yielded.
C4_Witness ==
    \E i \in 1..Len(yielded) : Len(YPath(i)) = Len(RootPath) + 2

\* C6: when the directories nest deeper than max_open, the walk completes
\* with every entry yielded and with forced closes counted in the statistics.
C6_DeepTreeForcedClose ==
    (Exhausted /\ nr_err = 0 /\ NestingDepth > config.max_open) =>
        /\ \A p \in fs.dirs \cup fs.leaves : \E i \in 1..Len(yielded) : YPath(i) = p
        /\ stats.nr_close > 0

\* C8: the iterator that build() returns for max_open = n starts with an
\* open budget of n, and build() rejects n = 0.
C8_BudgetIsMaxOpen ==
    /\ (pc = "idle" /\ last_result = "Start") => open_budget = config.max_open
    /\ config.max_open = 0 => pc \in {"config", "panic"}

\* C9: with min_depth = lo and max_depth = hi, every yielded entry has a
\* depth between lo and hi, and no directory at depth hi is opened.
C9_DepthWindow ==
    /\ \A i \in 1..Len(yielded) :
        config.min_depth <= YDepth(i) /\ YDepth(i) <= config.max_depth
    /\ \A i \in OpenItems(stack) : stack[i].depth <= config.max_depth

\* C10: a root that is a symbolic link to a directory, follow_links unset,
\* is never opened, and at exhaustion it is the one entry yielded, with kind
\* SymbolicLink.
C10_RootSymlinkNotFollowed ==
    (fs.leaves = {RootPath} /\ fs.leaf = [kind |-> "SymbolicLink", target |-> "dir"]
        /\ ~config.follow_links) =>
        /\ stats.nr_open = 0 /\ stats.nr_openat = 0
        /\ Exhausted =>
            /\ Len(yielded) = 1
            /\ YPath(1) = RootPath
            /\ YKind(1) = "SymbolicLink"

\* How often p occurs in the sequence s.
Count(s, p) == Cardinality({i \in 1..Len(s) : s[i] = p})

\* The sequences s and t hold the same elements, each as often.
SameBag(s, t) ==
    \A p \in {s[i] : i \in 1..Len(s)} \cup {t[i] : i \in 1..Len(t)} :
        Count(s, p) = Count(t, p)

C7_SamePathsAnyBudget ==
    (first_run.done /\ (Exhausted \/ pc = "panic")) =>
        SameBag(first_run.paths, YieldedPaths)

\* C7 witness: two walks with different max_open are exhausted, each having
\* yielded every entry of a tree with nested directories.
C7_Witness ==
    /\ first_run.done /\ Exhausted
    /\ first_run.max_open # config.max_open
    /\ Len(first_run.paths) = MaxNodes + 1
    /\ \E i \in 1..Len(yielded) : YDepth(i) = 2

\* The root path names a regular file.
RootIsRegularFile ==
    fs.dirs = {} /\ fs.leaves = {RootPath} /\ fs.leaf.kind = "File"

\* C11: when the root is a regular file, no advancement fails or aborts,
\* nothing is opened or listed, the one entry ever yielded is the root with
\* depth 0 and kind File, it is yielded by the first advancement, and the
\* iterator is exhausted only after it.
C11_RootRegularFile ==
    (RootIsRegularFile /\ assert_consistent(config)) =>
        /\ pc # "panic" /\ nr_err = 0
        /\ stats.nr_open = 0 /\ stats.nr_openat = 0 /\ stats.nr_getdent = 0
        /\ Len(yielded) <= 1
        /\ \A i \in 1..Len(yielded) :
            YPath(i) = RootPath /\ YDepth(i) = 0 /\ YKind(i) = "File"
        /\ (pc = "idle" /\ last_result # "Start") => Len(yielded) = 1

\* C11 witness: the walk of a root that is a regular file is exhausted.
C11_Witness ==
    RootIsRegularFile /\ Exhausted /\ Len(yielded) = 1 /\ stats.nr_stat = 1

\* The root is a directory whose listing holds `.` and `..` alone.
RootIsEmptyDirectory == fs.dirs = {RootPath} /\ fs.leaves = {}

\* C12: no yielded entry is named `.` or `..`, no directory is opened under
\* such a name, and the walk of an empty root directory fails nowhere and
\* yields the root alone, by its first advancement.
C12_DotEntriesSkipped ==
    /\ \A i \in 1..Len(yielded) : file_name(yielded[i].entry) \notin DotNames
    /\ \A i \in OpenItems(stack) :
        stack[i].as_parent.path.tag = "Name" =>
            stack[i].as_parent.path.name \notin DotNames
    /\ (RootIsEmptyDirectory /\ assert_consistent(config)) =>
        /\ pc # "panic" /\ nr_err = 0
        /\ Len(yielded) <= 1
        /\ \A i \in 1..Len(yielded) : YPath(i) = RootPath
        /\ (pc = "idle" /\ last_result # "Start") => Len(yielded) = 1

\* C12 witness: the walk of an empty root directory is exhausted, its two
\* records `.` and `..` read and dropped.
C12_Witness ==
    /\ RootIsEmptyDirectory /\ Exhausted /\ Len(yielded) = 1
    /\ Len(skipped) = 1 /\ skipped[1] = 2 /\ fdtable[1].off = 2

\* The sum of f[1], ..., f[n].
RECURSIVE SumTo(_, _)
SumTo(f, n) == IF n = 0 THEN 0 ELSE f[n] + SumTo(f, n - 1)

\* The records the kernel has emitted, over all descriptors, and those that
\* were dropped as `.` or `..`.
RecordsRead == SumTo([i \in 1..Len(fdtable) |-> fdtable[i].off], Len(fdtable))
RecordsSkipped == SumTo(skipped, Len(skipped))

\* The top item has an entry of unknown kind ready whose stat fails.
StatFails ==
    /\ InNext /\ stack # <<>>
    /\ \E r \in {Ready(Last(stack))} :
        /\ r.entry.tag = "Some"
        /\ r.entry.e.file_type = None
        /\ ~sys_stat(make_path(r.entry.e.file_name)).ok

\* The root path does not exist.
RootIsMissing == fs.dirs = {} /\ fs.leaves = {}

\* C13: an advancement that meets an entry of unknown kind whose stat fails
\* returns a failure and no entry, opens nothing and pushes nothing: the
\* stack changes in the top item alone, which has given up the entry. The
\* walk goes on: at exhaustion every directory was read to its end and
\* every record read, and the root, was yielded, dropped as `.`/`..` or
\* reported as a failure. For a root that does not exist the first
\* advancement fails and the second reports exhaustion.
C13_StatFailureIsPerEntry ==
    /\ [][(StatFails /\ pc' # "dropped") =>
            /\ last_result' = "Err" /\ pc' = "idle"
            /\ nr_err' = nr_err + 1
            /\ yielded' = yielded
            /\ fdtable' = fdtable
            /\ stats'.nr_open = stats.nr_open /\ stats'.nr_openat = stats.nr_openat
            /\ stack' = Replace(stack, Ready(Last(stack)).item)]_vars
    /\ [](Exhausted =>
            /\ \A i \in 1..Len(fdtable) : fdtable[i].off = Len(Listing(fdtable[i].dir))
            /\ Len(yielded) + nr_err + RecordsSkipped = 1 + RecordsRead)
    /\ []((RootIsMissing /\ assert_consistent(config)) =>
            /\ pc # "panic" /\ yielded = <<>> /\ nr_err <= 1
            /\ (pc = "idle" /\ last_result # "Start") => nr_err = 1)

\* C13 witness: a walk in which a stat failed is exhausted, having yielded
\* the root, entries of the root directory and an entry of a directory
\* below it.
C13_Witness ==
    /\ Exhausted /\ nr_err >= 1
    /\ \E i \in 1..Len(yielded) : yielded[i].src = 3
    /\ \E i \in 1..Len(yielded) : yielded[i].src = 4

\* The entry the top item has ready is a directory, and the open or openat
\* that iter_entry issues for it fails.
OpenFails ==
    /\ InNext /\ stack # <<>> /\ can_open(open_budget)
    /\ \E r \in {Ready(Last(stack))} :
        /\ r.entry.tag = "Some"
        /\ \E p \in {make_path(r.entry.e.file_name)} :
            /\ IF r.entry.e.file_type = None
               THEN \E m \in {sys_stat(p)} : m.ok /\ m.kind = "Directory"
               ELSE r.entry.e.file_type = "Directory"
            /\ IF r.item.tag = "Open"
               THEN ~sys_openat(r.item.fd, file_name(r.entry.e)).ok
               ELSE ~sys_open(p).ok

\* C14: an advancement whose open or openat of a directory fails returns a
\* failure and no entry, and leaves the stack with the items it had, none
\* pushed and none removed, the top item having given up the entry. The
\* failure is reported once for the directory, which is never opened, so no
\* entry is yielded from inside it; and at exhaustion every entry that is
\* neither that directory nor below it has been yielded.
C14_OpenFailureSkipsSubtree ==
    /\ [][(OpenFails /\ pc' # "dropped") =>
            /\ last_result' = "Err" /\ pc' = "idle"
            /\ nr_err' = nr_err + 1
            /\ yielded' = yielded
            /\ fdtable' = fdtable
            /\ Len(stack') = Len(stack)
            /\ \A i \in 1..(Len(stack) - 1) : stack'[i] = stack[i]
            /\ stack'[Len(stack)] = Ready(Last(stack)).item]_vars
    /\ [](/\ nr_err <= Cardinality(fs.denied)
          /\ \A i \in 1..Len(fdtable) : fdtable[i].dir \notin fs.denied
          /\ \A paths \in {YieldedPaths} : \A i \in 1..Len(paths) :
                \A k \in 1..Len(paths[i]) : SubSeq(paths[i], 1, k) \notin fs.denied)
    /\ [](Exhausted =>
            \A paths \in {YieldedPaths} : \A p \in fs.dirs \cup fs.leaves :
                (\A k \in 1..Len(p) : SubSeq(p, 1, k) \notin fs.denied) =>
                    \E i \in 1..Len(paths) : paths[i] = p)

\* C14 witness: the openat of a directory below the root has failed, and
\* the walk is exhausted having yielded an entry of the root directory.
C14_Witness ==
    /\ Exhausted /\ nr_err = 1 /\ stats.nr_openat >= 1
    /\ RootPath \notin fs.denied
    /\ Len(yielded) >= 2

\* The top item is Open with no entry ready, and the getdents64 of its
\* refill fails with an error other than EINVAL.
RefillFails ==
    /\ InNext /\ stack # <<>> /\ Last(stack).tag = "Open"
    /\ \E r \in {Open_ready_entry(Last(stack))} :
        /\ r.entry.tag = "None" /\ ~r.panic
        /\ \E f \in DirentBuf_fill_buf(r.open.buffer, r.open.fd) : f.more = "Err"

\* C15: an advancement whose refill fails with an I/O error returns a
\* failure, does not abort, and pops the item that failed.
C15_RefillFailureIsPerEntry ==
    [][(RefillFails /\ pc' # "dropped") =>
            /\ pc' = "idle" /\ last_result' = "Err"
            /\ stack' = SubSeq(stack, 1, Len(stack) - 1)]_vars

\* The kind of the file at the path p itself: the directories before the
\* last component are resolved, the last component is not followed.
KindAt(p) ==
    With(IF Len(p) = 1 THEN p
         ELSE Append(ResolvePrefix(p, Len(p) - 1).node, Last(p)), LAMBDA c :
        IF c \in fs.dirs THEN "Directory" ELSE fs.leaf.kind)

\* The kernel did not report the kind of the yielded entry y inline: it is
\* the root, or the file system reports DT_UNKNOWN.
InlineUnknown(y) == y.src = 0 \/ ~fs.d_type_known

\* C16: an entry whose inline kind is unknown and that is yielded after a
\* successful stat records the kind of the file at its path, whichever of
\* the seven kinds that is, and the step that yields it opens a directory
\* exactly when that kind is Directory.
C16_StatKindIsActualKind ==
    [][Len(yielded') = Len(yielded) + 1
          => \E y \in {Last(yielded')} :
                InlineUnknown(y)
                    => \E k \in {KindAt(DirEntry_path(y.entry))} :
                          /\ y.entry.file_type = k
                          /\ (Len(fdtable') = Len(fdtable) + 1) <=> (k = "Directory")]_vars

\* The entries of unknown inline kind obtained so far, yielded or failed:
\* the root, which is the first entry obtained, and every other one when
\* the file system reports DT_UNKNOWN.
UnknownObtained ==
    IF fs.d_type_known THEN (IF Len(yielded) + nr_err >= 1 THEN 1 ELSE 0)
    ELSE Len(yielded) + nr_err

\* An entry is ready in the top item: the next step of the advancement
\* hands it to iter_entry.
EntryReady == InNext /\ stack # <<>> /\ Ready(Last(stack)).entry.tag = "Some"

\* C17: the step that obtains an entry adds one to the stat counter when
\* the kernel did not report the entry's kind inline (the root included)
\* and nothing when it did, and returns to the caller; no other step
\* changes the counter, which so equals the number of entries of unknown
\* kind obtained so far.
C17_StatCounter ==
    /\ [][pc' # "dropped" =>
            IF EntryReady
            THEN \E r \in {Ready(Last(stack))} :
                    IF InlineUnknown(r)
                    THEN stats'.nr_stat = stats.nr_stat + 1 /\ pc' = "idle"
                    ELSE stats'.nr_stat = stats.nr_stat
            ELSE stats'.nr_stat = stats.nr_stat]_vars
    /\ [](stats.nr_stat = UnknownObtained)

\* A walk that has obtained three entries, each of unknown kind, and one
\* more stat than that it has not made.
C17_Witness ==
    /\ ~fs.d_type_known
    /\ Len(yielded) = 3
    /\ stats.nr_stat = 3

\* The yielded entries that were descended into, in the order of their
\* descriptors: the k-th of them opened descriptor k + 2.
Descended ==
    SelectSeq([i \in 1..Len(yielded) |-> i],
              LAMBDA i : yielded[i].entry.file_type = "Directory")

\* The path given to WalkDir::new joined with the names of the directories
\* that were opened on the way to the i-th yielded entry, and its own name.
RECURSIVE JoinedPath(_)
JoinedPath(i) ==
    IF yielded[i].src = 0 THEN path
    ELSE Append(JoinedPath(Descended[yielded[i].src - 2]),
                file_name(yielded[i].entry))

\* C18: for every yielded entry path() and into_path() give the same path,
\* before and after a first call of path() has filled the cell, and that
\* path is the root path joined with the names of the entry's ancestor
\* directories from the root down and then the entry's own name.
C18_PathIsRootJoinedWithNames ==
    \A i \in 1..Len(yielded) :
        \E e \in {yielded[i].entry} :
        \E p \in {DirEntry_path(e)} :
        \E e2 \in {DirEntry_after_path(e)} :
            /\ DirEntry_into_path(e) = p
            /\ DirEntry_path(e2) = p
            /\ DirEntry_into_path(e2) = p
            /\ p = JoinedPath(i)

\* The root, which carries a full path, was yielded, and so was an entry
\* two directories below it, which carries a name and a parent node.
C18_Witness ==
    /\ Len(yielded) >= 3
    /\ yielded[1].entry.file_name.tag = "Full"
    /\ \E i \in 1..Len(yielded) :
        /\ yielded[i].entry.file_name.tag = "Name"
        /\ yielded[i].entry.file_name.parent.path.tag = "Name"
        /\ Len(YPath(i)) = 3

\* The nodes alive or referred to by an item of the stack or by an entry
\* the caller holds.
Held == (1..Len(yielded)) \ released
EntryNames(i, n) ==
    /\ yielded[i].entry.file_name.tag = "Name"
    /\ yielded[i].entry.file_name.parent = n
ParentNodes ==
    DOMAIN strong_count
    \cup {stack[i].as_parent : i \in {j \in 1..Len(stack) : stack[j].tag = "Open"}}
    \cup {yielded[i].entry.file_name.parent :
            i \in {j \in Held : yielded[j].entry.file_name.tag = "Name"}}

StrongCount(n) == IF n \in DOMAIN strong_count THEN strong_count[n] ELSE 0

\* The holders of a reference to the node n: items of the stack, entries
\* held by the caller, nodes alive whose path names n as the parent.
StackHolders(n) ==
    Cardinality({i \in 1..Len(stack) : stack[i].tag = "Open" /\ stack[i].as_parent = n})
EntryHolders(n) == Cardinality({i \in Held : EntryNames(i, n)})
NodeHolders(n) ==
    Cardinality({m \in DOMAIN strong_count : m.path.tag = "Name" /\ m.path.parent = n})

\* C19 as stated: between advancements the reference count of every parent
\* node is 1 if an item of the stack holds it, plus the number of yielded
\* entries the caller still holds that name it; nothing else holds one.
C19_CountIsStackPlusEntries ==
    pc = "idle" =>
        \A n \in ParentNodes :
            StrongCount(n) = (IF StackHolders(n) > 0 THEN 1 ELSE 0) + EntryHolders(n)

\* C19 amended: between advancements the reference count of every parent
\* node is 1 if an item of the stack holds it, plus the number of yielded
\* entries the caller still holds that name it, plus the number of nodes
\* alive that name it as the parent in their path.
C19_CountIsStackEntriesAndNodes ==
    pc \in {"idle", "dropped"} =>
        \A n \in ParentNodes :
            /\ StackHolders(n) <= 1
            /\ StrongCount(n) = StackHolders(n) + EntryHolders(n) + NodeHolders(n)

\* Between two advancements a node is held by an item of the stack, by an
\* entry of the caller and by the node of a subdirectory, after the caller
\* dropped another entry.
C19_Witness ==
    /\ pc = "idle"
    /\ released # {}
    /\ \E n \in ParentNodes :
        /\ StackHolders(n) = 1
        /\ EntryHolders(n) >= 1
        /\ NodeHolders(n) >= 1

\* The names of the records the kernel has emitted for descriptor fd so
\* far, in order, `.` and `..` left out.
EmittedNames(fd) ==
    SelectSeq(SubSeq(Listing(fdtable[fd - 2].dir), 1, fdtable[fd - 2].off),
              LAMBDA n : n \notin DotNames)

\* The names of the entries yielded from descriptor fd, in the order of
\* the yielded sequence.
YieldedNames(fd) ==
    With(SelectSeq(yielded, LAMBDA y : y.src = fd), LAMBDA ys :
        [i \in 1..Len(ys) |-> file_name(ys[i].entry)])

\* The place of the name n in the sequence s, 0 when it is not in it.
Position(s, n) ==
    IF \E k \in 1..Len(s) : s[k] = n THEN CHOOSE k \in 1..Len(s) : s[k] = n ELSE 0

\* C20: the entries yielded from a directory that is read, `.` and `..`
\* apart, come in the yielded sequence in the order in which the kernel
\* emitted their records over the getdents64 calls on the directory.
C20_KernelOrderKept ==
    \A fd \in 3..(Len(fdtable) + 2) :
        \E em \in {EmittedNames(fd)} : \E ys \in {YieldedNames(fd)} :
            /\ \A i \in 1..Len(ys) : Position(em, ys[i]) > 0
            /\ \A i, j \in 1..Len(ys) :
                i < j => Position(em, ys[i]) < Position(em, ys[j])

\* A directory that lists b before a gave both records in one getdents64
\* call, and both entries were yielded.
C20_Witness ==
    /\ fs.batch = 4
    /\ fs.order[1] = "b"
    /\ Len(fdtable) >= 1
    /\ YieldedNames(3) = <<"b", "a">>

\* C21: however a buffer is filled and drained, 0 <= start <= last <=
\* capacity, the unread bytes being those between the cursors; and a
\* fill_buf called with start = last sets both cursors to zero before it
\* asks the kernel, which is so offered the whole capacity.
C21_CursorsWithinCapacity ==
    /\ [](/\ 0 <= dirent_buf.start
          /\ dirent_buf.start <= dirent_buf.last
          /\ dirent_buf.last <= dirent_buf.size
          /\ Len(dirent_buf.unread) = dirent_buf.last - dirent_buf.start)
    /\ [][(buf_event'.op = "fill" /\ dirent_buf.start = dirent_buf.last) =>
            /\ buf_event'.space = dirent_buf.size
            /\ dirent_buf'.start = 0
            /\ dirent_buf'.last = (IF buf_event'.ret > 0 THEN buf_event'.ret ELSE 0)]_vars

\* A buffer that was drained up to its last byte some way into its
\* capacity was filled again, and the kernel was offered all of it.
C21_Witness ==
    /\ buf_event.op = "fill"
    /\ buf_event.was_start = buf_event.was_last
    /\ buf_event.was_last > 0
    /\ buf_event.more = "More"
    /\ dirent_buf.start = 0
    /\ dirent_buf.last = dirent_buf.size

\* C22: fill_buf turns the return value of the kernel into its outcome: 0
\* into Done, -1 with EINVAL into Blocked, -1 with another errno into a
\* failure, n > 0 into More with last advanced by n; with Done, Blocked and
\* a failure the unread bytes are the same, and as many, as before.
C22_FillOutcomes ==
    [][buf_event'.op = "fill" =>
        \E e \in {buf_event'} :
            /\ e.more = (IF e.ret = 0 THEN "Done"
                         ELSE IF e.ret = -1 /\ e.errno = "EINVAL" THEN "Blocked"
                         ELSE IF e.ret = -1 THEN "Err"
                         ELSE "More")
            /\ IF e.ret > 0
               THEN dirent_buf'.last =
                        (IF dirent_buf.start = dirent_buf.last THEN 0
                         ELSE dirent_buf.last) + e.ret
               ELSE /\ dirent_buf'.unread = dirent_buf.unread
                    /\ dirent_buf'.last - dirent_buf'.start
                         = dirent_buf.last - dirent_buf.start]_vars

\* A buffer that holds unread bytes was filled when its kernel had no room
\* for a record, and fill_buf reported Blocked.
C22_Witness ==
    /\ buf_event.op = "fill"
    /\ buf_event.ret = -1
    /\ buf_event.errno = "EINVAL"
    /\ buf_event.more = "Blocked"
    /\ dirent_buf.unread # <<>>
    /\ dirent_buf.start > 0

\* The d_reclen the two bytes after d_ino and d_off spell.
HeadRecLen(bytes) == bytes[17] + 256 * bytes[18]

\* The bytes begin with a whole record: the header is there, d_reclen is
\* at least the header and at most the bytes, and a NUL follows the header
\* within the record.
BeginsWithRecord(bytes) ==
    /\ Len(bytes) >= HeaderSize
    /\ HeadRecLen(bytes) >= HeaderSize
    /\ HeadRecLen(bytes) <= Len(bytes)
    /\ \E i \in (HeaderSize + 1)..HeadRecLen(bytes) : bytes[i] = 0

\* C23: a step of the draining iterator over unread bytes that begin with
\* a whole record yields it and advances start by its d_reclen; over other
\* unread bytes it reports TooShort when fewer than the header remain and
\* InvalidLength otherwise, and sets start to last. Every such step
\* increases start, and the iterator ends only with start = last.
C23_DrainStep ==
    [][buf_event'.op = "drain" =>
        \E u \in {dirent_buf.unread} : \E item \in {buf_event'.item} :
            IF u = <<>>
            THEN /\ item.tag = "None"
                 /\ dirent_buf.start = dirent_buf.last
                 /\ dirent_buf' = dirent_buf
            ELSE /\ dirent_buf'.start > dirent_buf.start
                 /\ dirent_buf'.last = dirent_buf.last
                 /\ IF BeginsWithRecord(u)
                    THEN /\ item.tag = "Ok"
                         /\ item.reclen = HeadRecLen(u)
                         /\ dirent_buf'.start = dirent_buf.start + HeadRecLen(u)
                         /\ dirent_buf'.unread = SubSeq(u, HeadRecLen(u) + 1, Len(u))
                    ELSE /\ item.tag = "Err"
                         /\ item.err = (IF Len(u) < HeaderSize THEN "TooShort"
                                        ELSE "InvalidLength")
                         /\ dirent_buf'.start = dirent_buf.last
                         /\ dirent_buf'.unread = <<>>]_vars

\* After a record was drained the bytes left were fewer than a header: the
\* step reported TooShort and moved start to last.
C23_Witness ==
    /\ buf_event.op = "drain"
    /\ buf_event.item.tag = "Err"
    /\ buf_event.item.err = "TooShort"
    /\ dirent_buf.start = dirent_buf.last
    /\ dirent_buf.start > 24

\* C24: between advancements of a walk in the default configuration the
\* stack is ordered root-first, every item at least as deep as the item
\* beneath it, and right after a descent the item opened for the
\* subdirectory is the top of the stack.
C24_StackRootFirst ==
    /\ []((pc = "idle" /\ ~config.contents_first) =>
            \A i \in 2..Len(stack) : stack[i].depth >= stack[i - 1].depth)
    /\ [][(~config.contents_first /\ Len(fdtable') = Len(fdtable) + 1) =>
            /\ Last(stack').tag = "Open"
            /\ Last(stack').fd = Len(fdtable') + 2]_vars

\* What a caller sees of an entry: its path, its kind and its depth.
Seen(e) == [path |-> make_path(e.file_name), file_type |-> e.file_type, depth |-> e.depth]

\* The entries the ready_entry calls of an Open item would yield from here
\* on, its buffer refilled from the open directory f when it runs empty.
RECURSIVE Open_remaining(_, _)
Open_remaining(open, f) ==
    With(Open_ready_entry(open), LAMBDA r :
        IF r.panic THEN <<>>
        ELSE IF r.entry.tag = "Some"
        THEN <<Seen(r.entry.e)>> \o Open_remaining(r.open, f)
        ELSE With(CHOOSE o \in fill_buf_with(r.open.buffer,
                                              getdents64(f, fill_space(r.open.buffer))) : TRUE,
                  LAMBDA o :
                      IF o.more = "More"
                      THEN Open_remaining([r.open EXCEPT !.buffer = o.buf],
                                          [f EXCEPT !.off = @ + o.n])
                      ELSE <<>>))

\* The entries the ready_entry calls of a Closed item yield.
RECURSIVE Closed_remaining(_)
Closed_remaining(closed) ==
    With(Closed_ready_entry(closed), LAMBDA r :
        IF r.entry.tag = "None" THEN <<>>
        ELSE <<Seen(r.entry.e)>> \o Closed_remaining(r.closed))

Range(seq) == {seq[k] : k \in 1..Len(seq)}

\* The descriptor fd is closed in this step.
Closing(fd) == fdtable[fd - 2].open /\ ~fdtable'[fd - 2].open

\* C25: when an Open item is closed by force the close counter grows by
\* one, and either nothing but dot entries remained and no item is
\* returned, or a Closed item is returned whose ready_entry calls yield
\* exactly the entries that remained, each with the path, the kind and the
\* depth the Open item would have yielded it with.
C25_ForcedCloseKeepsEntries ==
    [][\A i \in 1..Len(stack) :
        (stack[i].tag = "Open" /\ Closing(stack[i].fd)) =>
            \E rem \in {Open_remaining(stack[i], fdtable[stack[i].fd - 2])} :
                /\ stats'.nr_close = stats.nr_close + 1
                /\ IF rem = <<>>
                   THEN stack' = Remove(stack, i)
                   ELSE /\ Len(stack') = Len(stack)
                        /\ stack'[i].tag = "Closed"
                        /\ \E got \in {Closed_remaining(stack'[i])} :
                             /\ Len(got) = Len(rem)
                             /\ Range(got) = Range(rem)]_vars

\* The directory a yielded entry was found in.
ParentDir(y) == Parent(make_path(y.entry.file_name))

\* C26: in the default configuration the entries of one directory are
\* yielded in one run: between two yielded entries of the same parent
\* directory every yielded entry has that parent directory; and a descent
\* leaves the item that found the directory on top of the stack, the item
\* opened for the directory right beneath it.
C26_SiblingsContiguous ==
    /\ [](~config.contents_first =>
            \A parents \in {[i \in 1..Len(yielded) |-> ParentDir(yielded[i])]} :
                \A i, k \in 1..Len(parents) :
                    (i < k /\ parents[i] = parents[k]) =>
                        \A j \in i..k : parents[j] = parents[i])
    /\ [][(~config.contents_first /\ Len(fdtable') = Len(fdtable) + 1) =>
            /\ Len(stack') = Len(stack) + 1
            /\ stack'[Len(stack)].tag = "Open"
            /\ stack'[Len(stack)].fd = Len(fdtable') + 2
            /\ Last(stack').tag = Last(stack).tag
            /\ Last(stack').depth = Last(stack).depth
            /\ Last(stack').depth + 1 = stack'[Len(stack)].depth]_vars

\* A directory was yielded and descended into, a sibling of it was yielded
\* after it, and an entry of the directory after that.
C26_Witness ==
    /\ ~config.contents_first
    /\ \E i, j, k \in 1..Len(yielded) :
        /\ i < j /\ j < k
        /\ yielded[i].src # 0
        /\ yielded[j].src = yielded[i].src
        /\ ParentDir(yielded[k]) = make_path(yielded[i].entry.file_name)

=============================================================================
